---- MODULE Spec2Model ----
(***************************************************************************)
(* Replication-in-DMQ: a Coordinator (consistent-hash ring, health         *)
(* monitor, failover controller, request router) and a fleet of Broker     *)
(* nodes holding an in-memory keyed store.                                 *)
(*                                                                         *)
(* Every "await" of the JavaScript source is a scheduling point: each      *)
(* action below is one synchronous run of a handler, from the arrival of   *)
(* a request or of a reply up to the next await or the return.             *)
(* A broker is either reachable (up) or not; an unreachable broker keeps   *)
(* its store, a call to it fails, and a call it is serving either waits    *)
(* until the broker is back or fails.                                      *)
(***************************************************************************)
EXTENDS Integers, Sequences, FiniteSets, Bags, TLC

(* ------------------------------ bounds --------------------------------- *)
\* virtual nodes per broker (150 in the deployment) and size of the hash circle (2^32)
VirtualNodeCount == 2
HashSpace == 16
\* health-probe rounds, failover handlers and client requests in flight at once
MaxRounds == 2
MaxHandlers == 2
MaxProduce == 1
MaxConsume == 1
\* times a broker becomes unreachable in one run
MaxOutages == 2
\* failovers that are over when the data plane is looked at
MaxPastFailovers == 2
\* length of the append-only failover event log
MaxFailoverEvents == 2
\* addNode calls made on one ring, and the largest replication factor asked for
MaxRegistrations == 4
MaxReplicationFactor == 4
\* /produce requests for one key under way at once, where writers race
MaxWriters == 2
\* failCount is only ever compared with failureThreshold: counts above
\* failureThreshold + MaxExtraFails are not told apart
MaxExtraFails == 0

(* ------------------------- program constants --------------------------- *)
REPLICATION_FACTOR == 3
failureThreshold == 3

None == "none"

\* BROKER_NODES, in registration order
BROKER_NODES == << <<"a", "http://a:5000">>, <<"b", "http://b:5000">>, <<"c", "http://c:5000">> >>
Brokers == {BROKER_NODES[i][1] : i \in 1..Len(BROKER_NODES)}
\* the keys clients produce and consume, and the keys whose route is looked at
Keys == {"k1"}
RouteKeys == {"k1", "k2", "k3", "k4"}
Payloads == {"p1", "p2"}

(* --------------------------- sequence helpers --------------------------- *)
Range(s) == {s[i] : i \in 1..Len(s)}

\* Array.prototype.indexOf: 0-based, -1 when absent
IndexOf(s, x) ==
  IF \E i \in 1..Len(s) : s[i] = x
  THEN (CHOOSE i \in 1..Len(s) : s[i] = x /\ \A j \in 1..(i-1) : s[j] # x) - 1
  ELSE -1

\* Array.prototype.splice(idx, 1), idx 0-based
RemoveAt(s, idx) == [i \in 1..(Len(s)-1) |-> IF i <= idx THEN s[i] ELSE s[i+1]]

\* Array.prototype.sort((a, b) => a - b)
RECURSIVE Insert(_, _)
Insert(s, x) ==
  IF s = <<>> THEN <<x>>
  ELSE IF x < Head(s) THEN <<x>> \o s
  ELSE <<Head(s)>> \o Insert(Tail(s), x)

RECURSIVE Sort(_)
Sort(s) == IF s = <<>> THEN <<>> ELSE Insert(Sort(Tail(s)), Head(s))

(* ------------------------------ hash ring ------------------------------ *)
\* first 32 bits of the SHA-256 digest of a label, as a table over the labels in use
Digest(label) ==
  CASE label = "a:vnode0" -> 2
    [] label = "a:vnode1" -> 9
    [] label = "b:vnode0" -> 5
    [] label = "b:vnode1" -> 12
    [] label = "c:vnode0" -> 7
    [] label = "c:vnode1" -> 9
    [] label = "a:vnode2" -> 14
    [] label = "b:vnode2" -> 15
    [] label = "c:vnode2" -> 31
    [] label = "k1" -> 1
    [] label = "k2" -> 6
    [] label = "k3" -> 11
    [] label = "k4" -> 29
    [] OTHER -> 0

hash(label) == Digest(label) % HashSpace

VnodeLabel(nodeName, i) == nodeName \o ":vnode" \o ToString(i)

\* a HashRing object: ring (position -> nodeName), sortedPositions, nodes
\* (nodeName -> {url, virtualPositions}, a Map in insertion order)
NewHashRing == [ring |-> [p \in {} |-> None], sortedPositions |-> <<>>, nodes |-> <<>>]

RECURSIVE Probe(_, _)
Probe(ringMap, position) ==
  IF position \in DOMAIN ringMap THEN Probe(ringMap, (position + 1) % HashSpace)
  ELSE position

\* the body of addNode's for loop, from iteration i on; acc = [ring, sortedPositions, virtualPositions]
RECURSIVE PlaceVnodes(_, _, _)
PlaceVnodes(acc, nodeName, i) ==
  IF i >= VirtualNodeCount THEN acc
  ELSE LET position == Probe(acc.ring, hash(VnodeLabel(nodeName, i)))
       IN PlaceVnodes([ring |-> acc.ring @@ (position :> nodeName),
                       sortedPositions |-> Append(acc.sortedPositions, position),
                       virtualPositions |-> Append(acc.virtualPositions, position)],
                      nodeName, i + 1)

\* Map.prototype.set: a new key goes last, an existing key keeps its place
MapSet(nodeSeq, nodeName, value) ==
  IF \E i \in 1..Len(nodeSeq) : nodeSeq[i].name = nodeName
  THEN [i \in 1..Len(nodeSeq) |-> IF nodeSeq[i].name = nodeName THEN value ELSE nodeSeq[i]]
  ELSE Append(nodeSeq, value)

addNode(hr, nodeName, url) ==
  LET placed == PlaceVnodes([ring |-> hr.ring, sortedPositions |-> hr.sortedPositions,
                             virtualPositions |-> <<>>], nodeName, 0)
  IN [ring |-> placed.ring,
      sortedPositions |-> Sort(placed.sortedPositions),
      nodes |-> MapSet(hr.nodes, nodeName,
                       [name |-> nodeName, url |-> url, virtualPositions |-> placed.virtualPositions])]

\* the body of removeNode's for loop over the node's virtualPositions
RECURSIVE DropPositions(_, _)
DropPositions(acc, positions) ==
  IF positions = <<>> THEN acc
  ELSE LET position == Head(positions)
           idx == IndexOf(acc.sortedPositions, position)
       IN DropPositions([ring |-> [p \in DOMAIN acc.ring \ {position} |-> acc.ring[p]],
                         sortedPositions |-> IF idx # -1 THEN RemoveAt(acc.sortedPositions, idx)
                                             ELSE acc.sortedPositions],
                        Tail(positions))

removeNode(hr, nodeName) ==
  IF ~\E i \in 1..Len(hr.nodes) : hr.nodes[i].name = nodeName THEN hr
  ELSE LET nodeData == CHOOSE n \in Range(hr.nodes) : n.name = nodeName
           dropped == DropPositions([ring |-> hr.ring, sortedPositions |-> hr.sortedPositions],
                                    nodeData.virtualPositions)
           Other(n) == n.name # nodeName
       IN [ring |-> dropped.ring,
           sortedPositions |-> dropped.sortedPositions,
           nodes |-> SelectSeq(hr.nodes, Other)]

\* binary search: first index (0-based) whose position is >= keyPosition, 0 on wrap-around
RECURSIVE BinSearch(_, _, _, _)
BinSearch(sp, keyPosition, left, right) ==
  IF left < right
  THEN LET mid == (left + right) \div 2
       IN IF sp[mid + 1] < keyPosition
          THEN BinSearch(sp, keyPosition, mid + 1, right)
          ELSE BinSearch(sp, keyPosition, left, mid)
  ELSE left

findClockwiseIndex(hr, keyPosition) ==
  LET left == BinSearch(hr.sortedPositions, keyPosition, 0, Len(hr.sortedPositions))
  IN IF left >= Len(hr.sortedPositions) THEN 0 ELSE left

\* a walk that takes the owner of every position it passes
RECURSIVE WalkNoDedup(_, _, _, _, _)
WalkNoDedup(hr, startIndex, i, assignedNodes, replicationFactor) ==
  LET total == Len(hr.sortedPositions)
  IN IF i < total /\ Len(assignedNodes) < replicationFactor
     THEN WalkNoDedup(hr, startIndex, i + 1,
                      Append(assignedNodes, hr.ring[hr.sortedPositions[((startIndex + i) % total) + 1]]),
                      replicationFactor)
     ELSE assignedNodes

\* the walk of getNodesForKey from step i on
RECURSIVE Walk(_, _, _, _, _)
Walk(hr, startIndex, i, assignedNodes, replicationFactor) ==
  LET total == Len(hr.sortedPositions)
  IN IF i < total /\ Len(assignedNodes) < replicationFactor
     THEN LET position == hr.sortedPositions[((startIndex + i) % total) + 1]
              nodeName == hr.ring[position]
          IN Walk(hr, startIndex, i + 1,
                  IF nodeName \in Range(assignedNodes) THEN assignedNodes
                  ELSE Append(assignedNodes, nodeName),
                  replicationFactor)
     ELSE assignedNodes

\* throw new Error('Hash ring is empty')
RingEmptyError == [error |-> "Hash ring is empty"]

\* getNodesForKey: on an empty ring it throws
getNodesForKey(hr, key, replicationFactor) ==
  IF Len(hr.nodes) = 0 THEN RingEmptyError
  ELSE
  LET keyPosition == hash(key)
      startIndex == findClockwiseIndex(hr, keyPosition)
      assignedNodes == Walk(hr, startIndex, 0, <<>>, replicationFactor)
  IN [primary |-> IF assignedNodes = <<>> THEN None ELSE Head(assignedNodes),
      replicas |-> IF assignedNodes = <<>> THEN <<>> ELSE Tail(assignedNodes),
      keyHash |-> keyPosition]

getNodeUrl(hr, nodeName) ==
  IF \E i \in 1..Len(hr.nodes) : hr.nodes[i].name = nodeName
  THEN (CHOOSE r \in Range(hr.nodes) : r.name = nodeName).url
  ELSE None

getAllNodeNames(hr) == [i \in 1..Len(hr.nodes) |-> hr.nodes[i].name]

(* ------------------------------- state -------------------------------- *)
VARIABLES
  ring,            \* Coordinator: the HashRing
  promotedNodes,   \* Coordinator: Map failed node -> promoted node (the override map)
  failoverEvents,  \* Coordinator: the failover event log
  nodeHealth,      \* HealthMonitor: Map nodeName -> {status, failCount}, in insertion order
  rounds,          \* _checkAll calls in flight: bag of the 1-based index of the entry being probed
  handlers,        \* onFailure calls in flight: bag of {failedNode, i, promotedNode, pc} and,
                   \* as history, tried: the candidates whose probe failed
  produceReqs,     \* /produce requests in flight or answered and not yet collected
  consumeReqs,     \* /consume requests in flight or answered and not yet collected
  up,              \* broker -> reachable
  messageStore,    \* broker -> key -> entry
  lastProduced,    \* history: key -> the latest /produce answered 201
  outages,         \* history: how many times a broker has become unreachable
  lookup,          \* the latest getNodesForKey call made on the ring: its arguments and what it gave
  hung,            \* brokers that accept a connection and never answer
  fired,           \* history: per broker, onFailure was called for it since its last successful probe
  stopped          \* monitor.stop() has been called

vars == <<ring, promotedNodes, failoverEvents, nodeHealth, rounds, handlers,
          produceReqs, consumeReqs, up, messageStore, lastProduced, outages, lookup,
          hung, fired, stopped>>

\* the ring built at Coordinator start from BROKER_NODES
RECURSIVE BuildRing(_, _)
BuildRing(hr, entries) ==
  IF entries = <<>> THEN hr
  ELSE BuildRing(addNode(hr, Head(entries)[1], Head(entries)[2]), Tail(entries))

StartRing == BuildRing(NewHashRing, BROKER_NODES)

\* the broker listening at a URL
BrokerAt(url) == CHOOSE b \in Brokers : \E i \in 1..Len(BROKER_NODES) :
                    BROKER_NODES[i][1] = b /\ BROKER_NODES[i][2] = url

\* an HTTP call to the broker at url gets an answer
\* a request to url is answered
Reachable(url) == up[BrokerAt(url)] /\ BrokerAt(url) \notin hung

\* a request to url fails at once: nothing accepts the connection
Refused(url) == ~up[BrokerAt(url)]

NoEntry == [role |-> None]

NoLookup == [key |-> None]

(* ------------------------------ history ------------------------------- *)
\* per key: payload and primary of the latest /produce answered 201, and whether one
\* of its replications succeeded; quiet: the produce in flight has run alone, with no
\* reachability change or failover since it arrived; clean: nothing has happened
\* since the latest 201 but consumes; killed: since the latest 201 the reachability
\* of the brokers has changed once, when the effective primary of the key, the broker
\* that produce stored to, became unreachable
NoProduce == [payload |-> None, primary |-> None, replicated |-> FALSE,
              quiet |-> FALSE, clean |-> FALSE, killed |-> FALSE]

\* A /consume changes nothing but its own answer, and an answered /produce is only
\* waiting to be collected. The answers looked at are those of consumes that ran in a
\* quiet system: when reachability changes or a failover is recorded, the consumers
\* hang up, the producers collect their answers, and a consume that comes later no
\* longer directly follows the latest produce.
Disturbed(killed) ==
  /\ consumeReqs' = {}
  /\ produceReqs' = [r \in {x \in DOMAIN produceReqs : x.pc # "done"} |-> produceReqs[r]]
  /\ lastProduced' = [k \in Keys |-> [lastProduced[k] EXCEPT !.quiet = FALSE, !.clean = FALSE,
                                                             !.killed = killed[k]]]

StillKilled == [k \in Keys |-> lastProduced[k].killed]
NotKilled == [k \in Keys |-> FALSE]

\* an entry of key was written on some broker: the consumers of key hang up
Written(key) == consumeReqs' = {c \in consumeReqs : c.key # key}

(* ---------------------------- health monitor --------------------------- *)
\* HealthMonitor.init
InitHealth(hr) ==
  [i \in 1..Len(getAllNodeNames(hr)) |->
     [name |-> getAllNodeNames(hr)[i], status |-> "HEALTHY", failCount |-> 0]]

HealthOf(nodeName) == CHOOSE h \in Range(nodeHealth) : h.name = nodeName

FailCap == failureThreshold + MaxExtraFails

\* a recovery handler that gives the recovered node its keys back
onRecoveryUnpromotes(pn, recoveredNode) ==
  [x \in DOMAIN pn \ {recoveredNode} |-> pn[x]]

\* onRecovery(recoveredNode): logs only; the override map is what it was
onRecovery(pn, recoveredNode) == pn

\* _checkAll, the try branch: the probe was answered
ProbeSucceeded(health) ==
  IF health.status = "FAILED" \/ health.status = "FAILED_OVER"
  THEN [health EXCEPT !.status = "RECOVERED", !.failCount = 0]
  ELSE [health EXCEPT !.status = "HEALTHY", !.failCount = 0]

\* a monitor that declares a broker one failure early
DeclaresFailedEarly(health) ==
  health.failCount + 2 >= failureThreshold /\ health.status = "HEALTHY"

\* _checkAll, the catch branch: the probe failed
DeclaresFailed(health) ==
  health.failCount + 1 >= failureThreshold /\ health.status = "HEALTHY"

ProbeFailed(health) ==
  LET counted == [health EXCEPT !.failCount = IF @ < FailCap THEN @ + 1 ELSE @]
  IN IF DeclaresFailed(health) THEN [counted EXCEPT !.status = "FAILED"] ELSE counted

\* the next entry of nodeHealth after index i that has a URL, 0 when the loop is over
NextProbe(hr, health, i) ==
  LET later == {j \in (i+1)..Len(health) : getNodeUrl(hr, health[j].name) # None}
  IN IF later = {} THEN 0 ELSE CHOOSE j \in later : \A l \in later : j <= l

AdvanceRound(i) ==
  LET j == NextProbe(ring, nodeHealth, i)
  IN rounds' = (rounds (-) SetToBag({i})) (+) (IF j = 0 THEN EmptyBag ELSE SetToBag({j}))

\* onFailure up to its first await: with no other node to try it returns at once
OnFailureStart(failedNode) ==
  IF 1 < Len(getAllNodeNames(ring))
  THEN SetToBag({[failedNode |-> failedNode, i |-> 1, promotedNode |-> None, pc |-> "probe",
                  tried |-> <<>>]})
  ELSE EmptyBag

\* setInterval fires: _checkAll runs up to the first probe
Tick ==
  /\ ~stopped
  /\ BagCardinality(rounds) < MaxRounds
  /\ LET j == NextProbe(ring, nodeHealth, 0)
     IN rounds' = rounds (+) (IF j = 0 THEN EmptyBag ELSE SetToBag({j}))
  /\ UNCHANGED <<stopped, fired, hung, lookup, ring, promotedNodes, failoverEvents, nodeHealth,
                 handlers, produceReqs, consumeReqs, up, messageStore, lastProduced, outages>>

\* GET /health of entry i answered: lines 125-136, then the loop goes on
ProbeOk(i) ==
  /\ BagIn(i, rounds)
  /\ Reachable(getNodeUrl(ring, nodeHealth[i].name))
  /\ nodeHealth' = [nodeHealth EXCEPT ![i] = ProbeSucceeded(@)]
  /\ promotedNodes' = IF nodeHealth[i].status \in {"FAILED", "FAILED_OVER"}
                      THEN onRecovery(promotedNodes, nodeHealth[i].name)
                      ELSE promotedNodes
  /\ fired' = [fired EXCEPT ![nodeHealth[i].name] = FALSE]
  /\ AdvanceRound(i)
  /\ UNCHANGED <<stopped, hung, lookup, ring, failoverEvents, handlers, produceReqs, consumeReqs,
                 up, messageStore, lastProduced, outages>>

\* GET /health of entry i failed or timed out: lines 137-147, then the loop goes on
ProbeFail(i) ==
  /\ BagIn(i, rounds)
  /\ ~Reachable(getNodeUrl(ring, nodeHealth[i].name))
  /\ nodeHealth' = [nodeHealth EXCEPT ![i] = ProbeFailed(@)]
  /\ IF DeclaresFailed(nodeHealth[i])
     THEN /\ BagCardinality(handlers) < MaxHandlers
          /\ Len(failoverEvents) + BagCardinality(handlers) < MaxFailoverEvents
          /\ handlers' = handlers (+) OnFailureStart(nodeHealth[i].name)
     ELSE handlers' = handlers
  /\ fired' = IF DeclaresFailed(nodeHealth[i])
              THEN [fired EXCEPT ![nodeHealth[i].name] = TRUE]
              ELSE fired
  /\ AdvanceRound(i)
  /\ UNCHANGED <<stopped, hung, lookup, ring, promotedNodes, failoverEvents, produceReqs,
                 consumeReqs, up, messageStore, lastProduced, outages>>

\* markFailedOver
markFailedOver(health, nodeName) ==
  [i \in 1..Len(health) |->
     IF health[i].name = nodeName THEN [health[i] EXCEPT !.status = "FAILED_OVER"] ELSE health[i]]

(* -------------------------- failover controller ------------------------ *)
\* Map.prototype.set / get on the override map
MapPut(m, k, v) == [x \in DOMAIN m \cup {k} |-> IF x = k THEN v ELSE m[x]]
MapGet(m, k) == IF k \in DOMAIN m THEN m[k] ELSE None

\* a handler that walks the broker list from its start
CandidateFromStart(h) ==
  LET allNodes == getAllNodeNames(ring)
  IN allNodes[((h.i - 1) % Len(allNodes)) + 1]

\* the candidate onFailure probes at loop index i
Candidate(h) ==
  LET allNodes == getAllNodeNames(ring)
      failedIndex == IndexOf(allNodes, h.failedNode)
  IN allNodes[((failedIndex + h.i) % Len(allNodes)) + 1]

\* the candidate's /health answered: it is the promotion target, POST /promote goes out
CandidateOk(h) ==
  /\ BagIn(h, handlers)
  /\ h.pc = "probe"
  /\ Reachable(getNodeUrl(ring, Candidate(h)))
  /\ handlers' = (handlers (-) SetToBag({h}))
                   (+) SetToBag({[h EXCEPT !.promotedNode = Candidate(h), !.pc = "promote"]})
  /\ UNCHANGED <<stopped, fired, hung, lookup, ring, promotedNodes, failoverEvents, nodeHealth,
                 rounds, produceReqs, consumeReqs, up, messageStore, lastProduced, outages>>

\* the candidate's /health failed: next candidate, or "no healthy replica" and return
CandidateFail(h) ==
  /\ BagIn(h, handlers)
  /\ h.pc = "probe"
  /\ ~Reachable(getNodeUrl(ring, Candidate(h)))
  /\ handlers' = (handlers (-) SetToBag({h}))
                   (+) (IF h.i + 1 < Len(getAllNodeNames(ring))
                        THEN SetToBag({[h EXCEPT !.i = h.i + 1,
                                                 !.tried = Append(@, Candidate(h))]})
                        ELSE EmptyBag)
  /\ UNCHANGED <<stopped, fired, hung, lookup, ring, promotedNodes, failoverEvents, nodeHealth,
                 rounds, produceReqs, consumeReqs, up, messageStore, lastProduced, outages>>

\* lines 77-85: what onFailure does once the await of POST /promote is over
RecordFailover(h) ==
  /\ promotedNodes' = MapPut(promotedNodes, h.failedNode, h.promotedNode)
  /\ nodeHealth' = markFailedOver(nodeHealth, h.failedNode)
  /\ failoverEvents' = Append(failoverEvents,
                              [failedNode |-> h.failedNode, promotedNode |-> h.promotedNode])

\* what onFailure does when POST /promote threw: the catch at lines 73-75 logs and falls through
AfterPromoteError(h) == RecordFailover(h)

\* POST /promote answered
PromoteOk(h) ==
  /\ BagIn(h, handlers)
  /\ h.pc = "promote"
  /\ Reachable(getNodeUrl(ring, h.promotedNode))
  /\ RecordFailover(h)
  /\ Disturbed(StillKilled)
  /\ handlers' = handlers (-) SetToBag({h})
  /\ UNCHANGED <<stopped, fired, hung, lookup, ring, rounds, up, messageStore, outages>>

\* POST /promote failed (no timeout on the call)
PromoteFail(h) ==
  /\ BagIn(h, handlers)
  /\ h.pc = "promote"
  /\ Refused(getNodeUrl(ring, h.promotedNode))
  /\ AfterPromoteError(h)
  /\ Disturbed(StillKilled)
  /\ handlers' = handlers (-) SetToBag({h})
  /\ UNCHANGED <<stopped, fired, hung, lookup, ring, rounds, up, messageStore, outages>>


(* ---------------------------- request router --------------------------- *)
\* a router that ignores the override map
resolveRawPrimary(pn, primary) == primary

resolveEffectivePrimary(pn, primary) ==
  IF MapGet(pn, primary) # None THEN MapGet(pn, primary) ELSE primary

\* /produce, lines 119-124
ProduceRoute(hr, pn, key) ==
  LET raw == getNodesForKey(hr, key, REPLICATION_FACTOR)
      Resolve(n) == resolveEffectivePrimary(pn, n)
      primary == Resolve(raw.primary)
      NotPrimary(n) == n # primary
      replicas == SelectSeq([i \in 1..Len(raw.replicas) |-> Resolve(raw.replicas[i])], NotPrimary)
      Url(n) == getNodeUrl(hr, n)
      HasUrl(u) == u # None
  IN [rawPrimary |-> raw.primary, primary |-> primary, replicas |-> replicas,
      primaryUrl |-> Url(primary),
      replicaUrls |-> SelectSeq([i \in 1..Len(replicas) |-> Url(replicas[i])], HasUrl)]

\* /consume and /route, lines 158-163 and 203-205
ConsumeRoute(hr, pn, key) ==
  LET raw == getNodesForKey(hr, key, REPLICATION_FACTOR)
      Resolve(n) == resolveEffectivePrimary(pn, n)
      primary == Resolve(raw.primary)
      replicas == [i \in 1..Len(raw.replicas) |-> Resolve(raw.replicas[i])]
  IN [rawPrimary |-> raw.primary, primary |-> primary, replicas |-> replicas,
      candidates |-> <<primary>> \o replicas]

InFlight(key) == {r \in BagToSet(produceReqs) : r.key = key /\ r.pc # "done"}

\* POST /produce arrives: the route is computed and POST /store goes out to the primary
Arrive(key, payload) ==
  /\ LET route == ProduceRoute(ring, promotedNodes, key)
     IN produceReqs' = produceReqs (+) SetToBag({
          [key |-> key, payload |-> payload, rawPrimary |-> route.rawPrimary,
           primary |-> route.primary, replicas |-> route.replicas,
           primaryUrl |-> route.primaryUrl, replicateTo |-> route.replicaUrls,
           pc |-> "store", idx |-> 0,
           replicationResults |-> <<>>, status |-> 0]})
  /\ lastProduced' = [lastProduced EXCEPT ![key].clean = FALSE, ![key].killed = FALSE,
                                           ![key].quiet = InFlight(key) = {}]
  /\ UNCHANGED <<stopped, fired, hung, lookup, ring, promotedNodes, failoverEvents, nodeHealth,
                 rounds, handlers, consumeReqs, up, messageStore, outages>>

\* POST /produce while fewer than MaxProduce requests are under way
Produce(key, payload) ==
  /\ BagCardinality(produceReqs) < MaxProduce
  /\ Arrive(key, payload)

\* a produce that fails when a replication failed
Answer201UnlessDegraded(r, results) ==
  IF \E j \in 1..Len(results) : results[j].status = "failed"
  THEN [r EXCEPT !.pc = "done", !.status = 503, !.replicationResults = results]
  ELSE [r EXCEPT !.pc = "done", !.status = 201, !.replicationResults = results]

\* the Coordinator answers 201 (line 138)
Answer201(r, results) ==
  [r EXCEPT !.pc = "done", !.status = 201, !.replicationResults = results]

\* the Coordinator answers 503 (line 148)
Answer503(r) == [r EXCEPT !.pc = "done", !.status = 503]

Acknowledged(r, results) ==
  lastProduced' = [lastProduced EXCEPT ![r.key] =
     [payload |-> r.payload, primary |-> r.primary,
      replicated |-> \E j \in 1..Len(results) : results[j].status = "success",
      quiet |-> FALSE, clean |-> lastProduced[r.key].quiet, killed |-> FALSE]]

\* a broker that keeps the entry it already has
StoreLocalKeepsFirst(store, node, key, payload) ==
  IF store[node][key].role # None THEN store
  ELSE [store EXCEPT ![node][key] = [payload |-> payload, role |-> "primary"]]

\* broker /store, line 30
StoreLocal(store, node, key, payload) ==
  [store EXCEPT ![node][key] = [payload |-> payload, role |-> "primary"]]

\* broker /replicate, line 74
StoreReplica(store, node, key, payload, primaryNode) ==
  [store EXCEPT ![node][key] = [payload |-> payload, role |-> "replica", replicaOf |-> primaryNode]]

\* POST /store reaches the primary: local write, then the first POST /replicate goes
\* out, or with nothing to replicate the broker and then the Coordinator answer 201
Store(r) ==
  /\ BagIn(r, produceReqs)
  /\ r.pc = "store"
  /\ Reachable(r.primaryUrl)
  /\ messageStore' = StoreLocal(messageStore, BrokerAt(r.primaryUrl), r.key, r.payload)
  /\ Written(r.key)
  /\ IF r.replicateTo = <<>>
     THEN /\ produceReqs' = (produceReqs (-) SetToBag({r})) (+) SetToBag({Answer201(r, <<>>)})
          /\ Acknowledged(r, <<>>)
     ELSE /\ produceReqs' = (produceReqs (-) SetToBag({r}))
                              (+) SetToBag({[r EXCEPT !.pc = "replicate", !.idx = 1]})
          /\ UNCHANGED lastProduced
  /\ UNCHANGED <<stopped, fired, hung, lookup, ring, promotedNodes, failoverEvents, nodeHealth,
                 rounds, handlers, up, outages>>

\* a router that falls back to the first replica when the primary does not answer
OnStoreErrorRetry(r) ==
  IF r.replicateTo # <<>> /\ Reachable(r.replicateTo[1])
  THEN /\ messageStore' = StoreLocal(messageStore, BrokerAt(r.replicateTo[1]), r.key, r.payload)
       /\ produceReqs' = (produceReqs (-) SetToBag({r})) (+) SetToBag({Answer201(r, <<>>)})
  ELSE /\ produceReqs' = (produceReqs (-) SetToBag({r})) (+) SetToBag({Answer503(r)})
       /\ UNCHANGED messageStore

\* the catch at lines 146-149: log, answer 503
OnStoreError(r) ==
  /\ produceReqs' = (produceReqs (-) SetToBag({r})) (+) SetToBag({Answer503(r)})
  /\ UNCHANGED messageStore

\* POST /store fails: the call has no timeout, so only a refused connection ends it
StoreFail(r) ==
  /\ BagIn(r, produceReqs)
  /\ r.pc = "store"
  /\ Refused(r.primaryUrl)
  /\ OnStoreError(r)
  /\ UNCHANGED <<stopped, fired, hung, lookup, ring, promotedNodes, failoverEvents, nodeHealth,
                 rounds, handlers, consumeReqs, up, lastProduced, outages>>

\* the primary's loop over replicateTo after the reply for entry idx: next POST
\* /replicate, or the 201 of the broker and then of the Coordinator
StoreLoop(r, result) ==
  LET results == Append(r.replicationResults, result)
  IN IF r.idx < Len(r.replicateTo)
     THEN /\ produceReqs' = (produceReqs (-) SetToBag({r}))
                 (+) SetToBag({[r EXCEPT !.idx = r.idx + 1, !.replicationResults = results]})
          /\ UNCHANGED lastProduced
     ELSE /\ produceReqs' = (produceReqs (-) SetToBag({r})) (+) SetToBag({Answer201(r, results)})
          /\ Acknowledged(r, results)

\* POST /replicate reaches the replica, which writes and answers (lines 67-86, 38)
Replicate(r) ==
  /\ BagIn(r, produceReqs)
  /\ r.pc = "replicate"
  /\ Reachable(r.primaryUrl)
  /\ Reachable(r.replicateTo[r.idx])
  /\ messageStore' = StoreReplica(messageStore, BrokerAt(r.replicateTo[r.idx]), r.key,
                                  r.payload, BrokerAt(r.primaryUrl))
  /\ Written(r.key)
  /\ StoreLoop(r, [node |-> r.replicateTo[r.idx], status |-> "success"])
  /\ UNCHANGED <<stopped, fired, hung, lookup, ring, promotedNodes, failoverEvents, nodeHealth,
                 rounds, handlers, up, outages>>

\* POST /replicate fails (no timeout on the call): the catch at line 40
ReplicateFail(r) ==
  /\ BagIn(r, produceReqs)
  /\ r.pc = "replicate"
  /\ Reachable(r.primaryUrl)
  /\ Refused(r.replicateTo[r.idx])
  /\ StoreLoop(r, [node |-> r.replicateTo[r.idx], status |-> "failed"])
  /\ UNCHANGED <<stopped, fired, hung, lookup, ring, promotedNodes, failoverEvents, nodeHealth,
                 rounds, handlers, consumeReqs, up, messageStore, outages>>

\* the primary became unreachable while it was replicating: POST /store fails
StoreAborted(r) ==
  /\ BagIn(r, produceReqs)
  /\ r.pc = "replicate"
  /\ Refused(r.primaryUrl)
  /\ OnStoreError(r)
  /\ UNCHANGED <<stopped, fired, hung, lookup, ring, promotedNodes, failoverEvents, nodeHealth,
                 rounds, handlers, consumeReqs, up, lastProduced, outages>>

\* the producer has its answer
ProduceDone(r) ==
  /\ BagIn(r, produceReqs)
  /\ r.pc = "done"
  /\ produceReqs' = produceReqs (-) SetToBag({r})
  /\ UNCHANGED <<stopped, fired, hung, lookup, ring, promotedNodes, failoverEvents, nodeHealth,
                 rounds, handlers, consumeReqs, up, messageStore, lastProduced, outages>>

\* a consume that asks the primary only
PrimaryOnly(hr, candidates, i) ==
  IF i = 1 /\ getNodeUrl(hr, candidates[1]) # None THEN 1 ELSE 0

\* the first candidate from index i on that has a URL, 0 when there is none
NextCandidate(hr, candidates, i) ==
  LET later == {j \in i..Len(candidates) : getNodeUrl(hr, candidates[j]) # None}
  IN IF later = {} THEN 0 ELSE CHOOSE j \in later : \A l \in later : j <= l

\* the Coordinator answers 404 (line 186)
Answer404(c) == [c EXCEPT !.pc = "done", !.status = 404]

\* the Coordinator answers with the entry fetched from nodeName (lines 174-179)
Answer200(c, entry, nodeName, pn) ==
  [c EXCEPT !.pc = "done", !.status = 200, !.payload = entry.payload, !.role = entry.role,
            !.servedBy = nodeName,
            !.failover = Cardinality(DOMAIN pn) > 0,
            !.source = IF nodeName = c.rawPrimary THEN "primary" ELSE "replica"]

\* GET /consume/:key arrives: candidates are computed and the first GET /fetch goes out
Consume(key) ==
  /\ Cardinality(consumeReqs) < MaxConsume
  /\ LET route == ConsumeRoute(ring, promotedNodes, key)
         first == NextCandidate(ring, route.candidates, 1)
         c == [key |-> key, rawPrimary |-> route.rawPrimary, primary |-> route.primary,
               candidates |-> route.candidates, pc |-> "fetch", idx |-> first,
               status |-> 0, payload |-> None, role |-> None, servedBy |-> None,
               failover |-> FALSE, source |-> None,
               follows |-> lastProduced[key].clean]
     IN consumeReqs' = consumeReqs \cup {IF first = 0 THEN Answer404(c) ELSE c}
  /\ UNCHANGED <<stopped, fired, hung, lookup, ring, promotedNodes, failoverEvents, nodeHealth,
                 rounds, handlers, produceReqs, up, messageStore, lastProduced, outages>>

\* broker /fetch/:key (lines 89-98): the entry, or not found
Fetch(store, node, key) == store[node][key]

\* GET /fetch on candidate idx answered with the entry
FetchOk(c) ==
  /\ c \in consumeReqs
  /\ c.pc = "fetch"
  /\ Reachable(getNodeUrl(ring, c.candidates[c.idx]))
  /\ Fetch(messageStore, c.candidates[c.idx], c.key) # NoEntry
  /\ consumeReqs' = (consumeReqs \ {c}) \cup
        {Answer200(c, Fetch(messageStore, c.candidates[c.idx], c.key), c.candidates[c.idx],
                   promotedNodes)}
  /\ UNCHANGED <<stopped, fired, hung, lookup, ring, promotedNodes, failoverEvents, nodeHealth,
                 rounds, handlers, produceReqs, up, messageStore, lastProduced, outages>>

\* GET /fetch on candidate idx failed (unreachable, or 404): next candidate, or 404
FetchFail(c) ==
  /\ c \in consumeReqs
  /\ c.pc = "fetch"
  /\ \/ ~Reachable(getNodeUrl(ring, c.candidates[c.idx]))
     \/ Fetch(messageStore, c.candidates[c.idx], c.key) = NoEntry
  /\ LET next == NextCandidate(ring, c.candidates, c.idx + 1)
     IN consumeReqs' = (consumeReqs \ {c}) \cup
          {IF next = 0 THEN Answer404(c) ELSE [c EXCEPT !.idx = next]}
  /\ UNCHANGED <<stopped, fired, hung, lookup, ring, promotedNodes, failoverEvents, nodeHealth,
                 rounds, handlers, produceReqs, up, messageStore, lastProduced, outages>>

\* the consumer has its answer
ConsumeDone(c) ==
  /\ c \in consumeReqs
  /\ c.pc = "done"
  /\ consumeReqs' = consumeReqs \ {c}
  /\ UNCHANGED <<stopped, fired, hung, lookup, ring, promotedNodes, failoverEvents, nodeHealth,
                 rounds, handlers, produceReqs, up, messageStore, lastProduced, outages>>

(* ----------------------------- environment ----------------------------- *)
BrokerDown(b) ==
  /\ up[b]
  /\ outages < MaxOutages
  /\ up' = [up EXCEPT ![b] = FALSE]
  /\ outages' = outages + 1
  /\ LET KilledNow == [key \in Keys |->
           /\ lastProduced[key].payload # None
           /\ InFlight(key) = {}
           /\ b = lastProduced[key].primary
           /\ b = resolveEffectivePrimary(promotedNodes,
                                          getNodesForKey(ring, key, REPLICATION_FACTOR).primary)
           /\ \A o \in Brokers : up[o]]
     IN Disturbed(KilledNow)
  /\ UNCHANGED <<stopped, fired, hung, lookup, ring, promotedNodes, failoverEvents, nodeHealth,
                 rounds, handlers, messageStore>>

BrokerUp(b) ==
  /\ ~up[b]
  /\ up' = [up EXCEPT ![b] = TRUE]
  /\ Disturbed(NotKilled)
  /\ UNCHANGED <<stopped, fired, hung, lookup, ring, promotedNodes, failoverEvents, nodeHealth,
                 rounds, handlers, messageStore, outages>>

\* b stops answering: it still accepts connections
BrokerHang(b) ==
  /\ up[b]
  /\ b \notin hung
  /\ hung' = hung \cup {b}
  /\ consumeReqs' = {[c EXCEPT !.follows = FALSE] : c \in consumeReqs}
  /\ lastProduced' = [k \in Keys |-> [lastProduced[k] EXCEPT !.quiet = FALSE, !.clean = FALSE]]
  /\ UNCHANGED <<stopped, fired, lookup, ring, promotedNodes, failoverEvents, nodeHealth, rounds,
                 handlers, produceReqs, up, messageStore, outages>>

\* monitor.stop(): clearInterval
Stop ==
  /\ ~stopped
  /\ stopped' = TRUE
  /\ UNCHANGED <<hung, fired, lookup, ring, promotedNodes, failoverEvents, nodeHealth, rounds,
                 handlers, produceReqs, consumeReqs, up, messageStore, lastProduced, outages>>

(* --------------------------- the specification ------------------------- *)
\* after the Coordinator and the brokers have started: monitor.start() has run init()
Init ==
  /\ ring = StartRing
  /\ promotedNodes = [n \in {} |-> None]
  /\ failoverEvents = <<>>
  /\ nodeHealth = InitHealth(StartRing)
  /\ rounds = EmptyBag
  /\ handlers = EmptyBag
  /\ produceReqs = EmptyBag
  /\ consumeReqs = {}
  /\ up = [b \in Brokers |-> TRUE]
  /\ messageStore = [b \in Brokers |-> [k \in Keys |-> NoEntry]]
  /\ lastProduced = [k \in Keys |-> NoProduce]
  /\ outages = 0
  /\ stopped = FALSE
  /\ fired = [b \in Brokers |-> FALSE]
  /\ hung = {}
  /\ lookup = NoLookup

Next ==
  \/ Tick
  \/ \E i \in 1..Len(nodeHealth) : ProbeOk(i)
  \/ \E i \in 1..Len(nodeHealth) : ProbeFail(i)
  \/ \E h \in BagToSet(handlers) : CandidateOk(h)
  \/ \E h \in BagToSet(handlers) : CandidateFail(h)
  \/ \E h \in BagToSet(handlers) : PromoteOk(h)
  \/ \E h \in BagToSet(handlers) : PromoteFail(h)
  \/ \E k \in Keys, p \in Payloads : Produce(k, p)
  \/ \E r \in BagToSet(produceReqs) : Store(r)
  \/ \E r \in BagToSet(produceReqs) : StoreFail(r)
  \/ \E r \in BagToSet(produceReqs) : Replicate(r)
  \/ \E r \in BagToSet(produceReqs) : ReplicateFail(r)
  \/ \E r \in BagToSet(produceReqs) : StoreAborted(r)
  \/ \E r \in BagToSet(produceReqs) : ProduceDone(r)
  \/ \E k \in Keys : Consume(k)
  \/ \E c \in consumeReqs : FetchOk(c)
  \/ \E c \in consumeReqs : FetchFail(c)
  \/ \E c \in consumeReqs : ConsumeDone(c)
  \/ \E b \in Brokers : BrokerDown(b)
  \/ \E b \in Brokers : BrokerUp(b)

Spec == Init /\ [][Next]_vars

\* The control plane alone: health monitor, failover controller and broker outages.
\* No action of the data plane reads or writes ring, promotedNodes, failoverEvents,
\* nodeHealth, rounds or handlers, and none of these actions reads the data plane.
NextControl ==
  \/ Tick
  \/ \E i \in 1..Len(nodeHealth) : ProbeOk(i)
  \/ \E i \in 1..Len(nodeHealth) : ProbeFail(i)
  \/ \E h \in BagToSet(handlers) : CandidateOk(h)
  \/ \E h \in BagToSet(handlers) : CandidateFail(h)
  \/ \E h \in BagToSet(handlers) : PromoteOk(h)
  \/ \E h \in BagToSet(handlers) : PromoteFail(h)
  \/ \E b \in Brokers : BrokerDown(b)
  \/ \E b \in Brokers : BrokerUp(b)

SpecControl == Init /\ [][NextControl]_vars

\* The data plane and the failover controller, started from a state the control plane
\* has reached: either some failovers are over (one outage each) and every broker is
\* back and HEALTHY, or broker x has just been declared FAILED in the first outage and
\* its onFailure is at its first probe.
FailoverHistories ==
  LET Event == {e \in [failedNode : Brokers, promotedNode : Brokers] : e.failedNode # e.promotedNode}
  IN UNION {[1..n -> Event] : n \in 0..MaxPastFailovers}

RECURSIVE Overrides(_)
Overrides(events) ==
  IF events = <<>> THEN [n \in {} |-> None]
  ELSE MapPut(Overrides(SubSeq(events, 1, Len(events) - 1)),
              events[Len(events)].failedNode, events[Len(events)].promotedNode)

InitData ==
  /\ ring = StartRing
  /\ stopped = FALSE
  /\ hung = {}
  /\ lookup = NoLookup
  /\ rounds = EmptyBag
  /\ produceReqs = EmptyBag
  /\ consumeReqs = {}
  /\ messageStore = [b \in Brokers |-> [k \in Keys |-> NoEntry]]
  /\ lastProduced = [k \in Keys |-> NoProduce]
  /\ \/ /\ failoverEvents \in FailoverHistories
        /\ outages = Len(failoverEvents)
        /\ promotedNodes = Overrides(failoverEvents)
        /\ nodeHealth = InitHealth(StartRing)
        /\ handlers = EmptyBag
        /\ up = [b \in Brokers |-> TRUE]
     \/ \E x \in Brokers :
        /\ failoverEvents = <<>>
        /\ outages = 1
        /\ promotedNodes = [n \in {} |-> None]
        /\ nodeHealth = [i \in 1..Len(InitHealth(StartRing)) |->
                           IF InitHealth(StartRing)[i].name = x
                           THEN [name |-> x, status |-> "FAILED", failCount |-> failureThreshold]
                           ELSE InitHealth(StartRing)[i]]
        /\ handlers = OnFailureStart(x)
        /\ up = [b \in Brokers |-> b # x]
  /\ fired = [b \in Brokers |-> HealthOf(b).status = "FAILED"]

NextData ==
  \/ \E k \in Keys, p \in Payloads : Produce(k, p)
  \/ \E r \in BagToSet(produceReqs) : Store(r)
  \/ \E r \in BagToSet(produceReqs) : StoreFail(r)
  \/ \E r \in BagToSet(produceReqs) : Replicate(r)
  \/ \E r \in BagToSet(produceReqs) : ReplicateFail(r)
  \/ \E r \in BagToSet(produceReqs) : StoreAborted(r)
  \/ \E r \in BagToSet(produceReqs) : ProduceDone(r)
  \/ \E k \in Keys : Consume(k)
  \/ \E c \in consumeReqs : FetchOk(c)
  \/ \E c \in consumeReqs : FetchFail(c)
  \/ \E c \in consumeReqs : ConsumeDone(c)
  \/ \E h \in BagToSet(handlers) : CandidateOk(h)
  \/ \E h \in BagToSet(handlers) : CandidateFail(h)
  \/ \E h \in BagToSet(handlers) : PromoteOk(h)
  \/ \E h \in BagToSet(handlers) : PromoteFail(h)
  \/ \E b \in Brokers : BrokerDown(b)
  \/ \E b \in Brokers : BrokerUp(b)

SpecData == InitData /\ [][NextData]_vars

\* Outage and failover, one thing at a time: a probe round starts when no request is
\* in flight, a request arrives when no round or failover handler is running, and
\* the reachability of a broker changes when neither is. Every behaviour of this
\* schedule is a behaviour of Spec. The timer always fires again, a call that is out
\* is answered or fails, and a client collects its answer.
ControlIdle == rounds = EmptyBag /\ handlers = EmptyBag
DataIdle == produceReqs = EmptyBag /\ consumeReqs = {}

TickIdle == DataIdle /\ rounds = EmptyBag /\ Tick
ProbeStep == \E i \in 1..Len(nodeHealth) : ProbeOk(i) \/ ProbeFail(i)
HandlerStep == \E h \in BagToSet(handlers) : CandidateOk(h) \/ CandidateFail(h) \/ PromoteOk(h)
ProduceStep == \E r \in BagToSet(produceReqs) :
                 Store(r) \/ StoreFail(r) \/ Replicate(r) \/ ReplicateFail(r) \/ ProduceDone(r)
ConsumeStep == \E c \in consumeReqs : FetchOk(c) \/ FetchFail(c) \/ ConsumeDone(c)

NextFailover ==
  \/ TickIdle
  \/ \E i \in 1..Len(nodeHealth) : ProbeOk(i)
  \/ \E i \in 1..Len(nodeHealth) : ProbeFail(i)
  \/ \E h \in BagToSet(handlers) : CandidateOk(h)
  \/ \E h \in BagToSet(handlers) : CandidateFail(h)
  \/ \E h \in BagToSet(handlers) : PromoteOk(h)
  \/ \E k \in Keys, p \in Payloads : ControlIdle /\ Produce(k, p)
  \/ \E r \in BagToSet(produceReqs) : Store(r)
  \/ \E r \in BagToSet(produceReqs) : StoreFail(r)
  \/ \E r \in BagToSet(produceReqs) : Replicate(r)
  \/ \E r \in BagToSet(produceReqs) : ReplicateFail(r)
  \/ \E r \in BagToSet(produceReqs) : ProduceDone(r)
  \/ \E k \in Keys : ControlIdle /\ Consume(k)
  \/ \E c \in consumeReqs : FetchOk(c)
  \/ \E c \in consumeReqs : FetchFail(c)
  \/ \E c \in consumeReqs : ConsumeDone(c)
  \/ \E b \in Brokers : ControlIdle /\ DataIdle /\ BrokerDown(b)
  \/ \E b \in Brokers : ControlIdle /\ DataIdle /\ BrokerUp(b)

SpecFailover ==
  /\ Init /\ [][NextFailover]_vars
  /\ SF_vars(TickIdle)
  /\ WF_vars(ProbeStep) /\ WF_vars(HandlerStep)
  /\ WF_vars(ProduceStep) /\ WF_vars(ConsumeStep)


(* ------------------------------- claims -------------------------------- *)
RawPrimary(key) == getNodesForKey(ring, key, REPLICATION_FACTOR).primary

\* C1: a /produce can arrive in any state; the broker it then sends the primary write
\* (POST /store) to never has health status FAILED or FAILED_OVER at that moment.
C1_NoPrimaryWriteToFailedBroker ==
  \A k \in RouteKeys :
    HealthOf(ProduceRoute(ring, promotedNodes, k).primary).status \notin {"FAILED", "FAILED_OVER"}

\* the latest failover event of every failed node
LatestFailovers ==
  {failoverEvents[i] : i \in {j \in 1..Len(failoverEvents) :
       \A l \in (j+1)..Len(failoverEvents) :
          failoverEvents[l].failedNode # failoverEvents[j].failedNode}}

\* C2: once a failover from X to Y is recorded, and as long as no later failover of X
\* is, override[X] = Y and /route, /produce and /consume resolve primary = Y for
\* every key whose raw ring primary is X.
C2_RouteFollowsFailover ==
  \A e \in LatestFailovers :
    /\ MapGet(promotedNodes, e.failedNode) = e.promotedNode
    /\ \A k \in RouteKeys :
         RawPrimary(k) = e.failedNode =>
           /\ ProduceRoute(ring, promotedNodes, k).primary = e.promotedNode
           /\ ConsumeRoute(ring, promotedNodes, k).primary = e.promotedNode

\* two failovers are on record and keys of both failed nodes are routed
C2_Witness ==
  /\ Len(failoverEvents) = 2
  /\ \A e \in LatestFailovers :
       \E k \in RouteKeys : /\ RawPrimary(k) = e.failedNode
                            /\ ProduceRoute(ring, promotedNodes, k).primary = e.promotedNode

\* C3: when POST /promote fails, the handler leaves the override map, the failover
\* log and the health records as they were.
C3_PromoteFailureChangesNothing ==
  [][\A h \in BagToSet(handlers) :
       PromoteFail(h) => /\ promotedNodes' = promotedNodes
                         /\ failoverEvents' = failoverEvents
                         /\ nodeHealth' = nodeHealth]_vars

\* C10: an override entry, once there, is there in every later state, and the probe
\* that finds a FAILED or FAILED_OVER broker back (onRecovery) leaves the override
\* map and the failover log as they were.
C10_OverridesAreKept ==
  [][/\ DOMAIN promotedNodes \subseteq DOMAIN promotedNodes'
     /\ \A i \in 1..Len(nodeHealth) :
          (ProbeOk(i) /\ nodeHealth[i].status \in {"FAILED", "FAILED_OVER"}) =>
             /\ promotedNodes' = promotedNodes
             /\ failoverEvents' = failoverEvents]_vars

\* a failed-over broker has been found back while its override is in place
C10_Witness ==
  \E i \in 1..Len(nodeHealth) :
    /\ nodeHealth[i].status = "RECOVERED"
    /\ up[nodeHealth[i].name]
    /\ nodeHealth[i].name \in DOMAIN promotedNodes
    /\ \E k \in RouteKeys :
         /\ RawPrimary(k) = nodeHealth[i].name
         /\ ProduceRoute(ring, promotedNodes, k).primary = promotedNodes[nodeHealth[i].name]

(* data plane *)
EffectivePrimary(key) == ConsumeRoute(ring, promotedNodes, key).primary

Answered(c) == c \in consumeReqs /\ c.pc = "done"

\* C4 as stated: a consume that follows a produce answered 201, with no produce of
\* the key, failover or reachability change in between, returns the produced payload,
\* servedBy the effective primary, source "primary".
C4_ConsumeAfterProduce ==
  \A c \in consumeReqs :
    (Answered(c) /\ c.follows) =>
       /\ c.status = 200
       /\ c.payload = lastProduced[c.key].payload
       /\ c.servedBy = EffectivePrimary(c.key)
       /\ c.source = "primary"

\* C4 amended: such a consume returns the produced payload, servedBy the effective
\* primary of the key, which is the broker the produce stored to; source is "primary"
\* when that broker is the raw ring primary of the key and "replica" when an override
\* has replaced the raw primary.
C4_ConsumeAfterProduceAmended ==
  \A c \in consumeReqs :
    (Answered(c) /\ c.follows) =>
       /\ c.status = 200
       /\ c.payload = lastProduced[c.key].payload
       /\ c.servedBy = EffectivePrimary(c.key)
       /\ c.servedBy = lastProduced[c.key].primary
       /\ c.source = IF EffectivePrimary(c.key) = RawPrimary(c.key) THEN "primary" ELSE "replica"

\* after a failover, a consume has followed a produce of a second payload for the key
C4_Witness ==
  \E c \in consumeReqs :
    /\ Answered(c) /\ c.follows
    /\ EffectivePrimary(c.key) # RawPrimary(c.key)
    /\ c.source = "replica"
    /\ \E b \in Brokers : /\ messageStore[b][c.key] # NoEntry
                           /\ messageStore[b][c.key].payload # c.payload

Holders(key) == {b \in Brokers : up[b] /\ messageStore[b][key] # NoEntry}

\* C5: when a reachable broker holds an entry for the key and no produce of the key
\* is under way, a consume returns 200 with the
\* payload of the latest produce of the key answered 201.
C5_ConsumeReturnsLatest ==
  \A c \in consumeReqs :
    (/\ Answered(c)
     /\ lastProduced[c.key].payload # None
     /\ InFlight(c.key) = {}
     /\ Holders(c.key) # {}) =>
       /\ c.status = 200
       /\ c.payload = lastProduced[c.key].payload

\* C7: /store writes the entry locally with role primary; every reply to a POST
\* /replicate, failed or not, leaves the primary's entry in place, adds one result
\* for that URL (success iff the replica took the entry, failed otherwise), and
\* after the last one the produce is answered 201 with one result per URL, in order.
C7_DegradedReplicationIsNotFatal ==
  [][\A r \in BagToSet(produceReqs) :
       LET P == BrokerAt(r.primaryUrl)
           Mine(q) == q.key = r.key /\ q.payload = r.payload /\ q.replicateTo = r.replicateTo
       IN /\ Store(r) => messageStore'[P][r.key] = [payload |-> r.payload, role |-> "primary"]
          /\ (Replicate(r) \/ ReplicateFail(r)) =>
               LET url == r.replicateTo[r.idx]
                   took == messageStore'[BrokerAt(url)][r.key] =
                             [payload |-> r.payload, role |-> "replica", replicaOf |-> P]
               IN /\ messageStore'[P] = messageStore[P]
                  /\ ~Reachable(url) => messageStore' = messageStore
                  /\ \E q \in BagToSet(produceReqs') :
                       /\ Mine(q) /\ Len(q.replicationResults) = r.idx
                       /\ q.replicationResults[r.idx].node = url
                       /\ q.replicationResults[r.idx].status = "success" <=> (Reachable(url) /\ took)
                       /\ q.replicationResults[r.idx].status = "failed" <=> ~Reachable(url)
                       /\ IF r.idx = Len(r.replicateTo)
                          THEN /\ q.pc = "done" /\ q.status = 201
                               /\ \A j \in 1..Len(r.replicateTo) :
                                    q.replicationResults[j].node = r.replicateTo[j]
                          ELSE q.pc = "replicate" /\ q.idx = r.idx + 1]_vars

\* a produce was answered 201 although its first replication failed and its second succeeded
C7_Witness ==
  \E r \in BagToSet(produceReqs) :
    /\ r.pc = "done" /\ r.status = 201
    /\ Len(r.replicationResults) = 2
    /\ r.replicationResults[1].status = "failed"
    /\ r.replicationResults[2].status = "success"
    /\ messageStore[r.primary][r.key] = [payload |-> r.payload, role |-> "primary"]

\* C8: a /produce whose primary does not answer POST /store is answered 503 in that
\* same step: no second attempt, and no broker's store changes.
C8_UnreachablePrimaryIs503 ==
  [][\A r \in BagToSet(produceReqs) :
       (/\ r.pc = "store" /\ ~Reachable(r.primaryUrl)
        /\ CopiesIn(r, produceReqs') < CopiesIn(r, produceReqs)) =>
          /\ messageStore' = messageStore
          /\ produceReqs' = (produceReqs (-) SetToBag({r}))
                (+) SetToBag({[r EXCEPT !.pc = "done", !.status = 503]})]_vars

\* a produce was answered 503 while its replicas were reachable
C8_Witness ==
  \E r \in BagToSet(produceReqs) :
    /\ r.pc = "done" /\ r.status = 503
    /\ ~up[r.primary]
    /\ r.replicas # <<>>
    /\ \A j \in 1..Len(r.replicas) : up[r.replicas[j]]

\* C9: a consume is answered by the first of [effective primary, effective replicas in
\* ring order] that is reachable and holds the key, and 404 exactly when none is.
C9_ConsumeOrder ==
  \A c \in consumeReqs :
    Answered(c) =>
       LET route == ConsumeRoute(ring, promotedNodes, c.key)
           raw == getNodesForKey(ring, c.key, REPLICATION_FACTOR)
           override == promotedNodes @@ [b \in Brokers |-> b]
           good == {j \in 1..Len(route.candidates) :
                      /\ up[route.candidates[j]]
                      /\ messageStore[route.candidates[j]][c.key] # NoEntry}
       IN /\ route.candidates =
               <<override[raw.primary]>> \o [j \in 1..Len(raw.replicas) |-> override[raw.replicas[j]]]
          /\ (c.status = 404) <=> (good = {})
          /\ (c.status = 200) <=> (good # {})
          /\ good # {} =>
               LET first == CHOOSE j \in good : \A l \in good : j <= l
               IN /\ c.servedBy = route.candidates[first]
                  /\ c.payload = messageStore[route.candidates[first]][c.key].payload

\* a consume fell back past an unreachable primary and a replica without the key
C9_Witness ==
  \E c \in consumeReqs :
    /\ Answered(c) /\ c.status = 200
    /\ c.servedBy = c.candidates[3]
    /\ c.servedBy \notin {c.candidates[1], c.candidates[2]}

\* the latest produce of key was answered 201 with a successful replication, then the
\* effective primary of key became unreachable with the other brokers reachable, and
\* since then reachability has not changed and key has not been produced
PrimaryKilled(key) == lastProduced[key].killed /\ lastProduced[key].replicated

ServedFromReplica(key) ==
  \A c \in consumeReqs :
    (Answered(c) /\ c.key = key) =>
       /\ c.status = 200
       /\ c.payload = lastProduced[key].payload
       /\ c.failover
       /\ c.source = "replica"

\* C6: when the effective primary of a key stays unreachable after a replicated
\* produce, the system reaches a state from which every consume of the key returns
\* the produced payload with failover = true and source = "replica".
C6_FailoverServesReplica ==
  \A k \in Keys : <>[]PrimaryKilled(k) => <>[]ServedFromReplica(k)

(* hash ring *)
\* ring.addNode(name, url) for an entry of BROKER_NODES; an entry may come twice
AddNode(entry) ==
  /\ Len(ring.sortedPositions) < MaxRegistrations * VirtualNodeCount
  /\ ring' = addNode(ring, entry[1], entry[2])
  /\ lookup' = NoLookup
  /\ UNCHANGED <<stopped, fired, hung, promotedNodes, failoverEvents, nodeHealth, rounds, handlers,
                 produceReqs, consumeReqs, up, messageStore, lastProduced, outages>>

\* ring.getNodesForKey(key, replicationFactor)
Lookup(key, replicationFactor) ==
  /\ lookup' = [key |-> key, replicationFactor |-> replicationFactor,
                result |-> getNodesForKey(ring, key, replicationFactor)]
  /\ UNCHANGED <<stopped, fired, hung, ring, promotedNodes, failoverEvents, nodeHealth, rounds,
                 handlers, produceReqs, consumeReqs, up, messageStore, lastProduced, outages>>

\* a HashRing from its construction on, before the monitor and the brokers start
InitRing ==
  /\ ring = NewHashRing
  /\ lookup = NoLookup
  /\ promotedNodes = [n \in {} |-> None]
  /\ failoverEvents = <<>>
  /\ nodeHealth = <<>>
  /\ rounds = EmptyBag
  /\ handlers = EmptyBag
  /\ produceReqs = EmptyBag
  /\ consumeReqs = {}
  /\ up = [b \in Brokers |-> FALSE]
  /\ messageStore = [b \in Brokers |-> [k \in Keys |-> NoEntry]]
  /\ lastProduced = [k \in Keys |-> NoProduce]
  /\ outages = 0
  /\ stopped = FALSE
  /\ fired = [b \in Brokers |-> FALSE]
  /\ hung = {}

NextRing ==
  \/ \E i \in 1..Len(BROKER_NODES) : AddNode(BROKER_NODES[i])
  \/ \E k \in RouteKeys, r \in 1..MaxReplicationFactor : Lookup(k, r)

SpecRing == InitRing /\ [][NextRing]_vars

Min(a, b) == IF a <= b THEN a ELSE b

\* C11: getNodesForKey(k, R) on a ring with registered brokers B gives min(R, |B|)
\* pairwise-distinct brokers of B, all of B when R >= |B|; the primary owns the
\* smallest position >= hash(k), or the smallest position of all when there is none;
\* on an empty ring it throws.
C11_NodesForKey ==
  lookup # NoLookup =>
    LET B == Range(getAllNodeNames(ring))
        P == DOMAIN ring.ring
        R == lookup.replicationFactor
        res == lookup.result
    IN IF B = {} THEN res = RingEmptyError
       ELSE LET nodes == <<res.primary>> \o res.replicas
                ahead == {p \in P : p >= hash(lookup.key)}
                owner == IF ahead # {} THEN CHOOSE p \in ahead : \A q \in ahead : p <= q
                         ELSE CHOOSE p \in P : \A q \in P : p <= q
            IN /\ res # RingEmptyError
               /\ Len(nodes) = Min(R, Cardinality(B))
               /\ \A i, j \in 1..Len(nodes) : i # j => nodes[i] # nodes[j]
               /\ Range(nodes) \subseteq B
               /\ R >= Cardinality(B) => Range(nodes) = B
               /\ res.primary = ring.ring[owner]

\* a key past the last position was looked up with R above the number of brokers
C11_Witness ==
  /\ lookup # NoLookup
  /\ Cardinality(Range(getAllNodeNames(ring))) = 2
  /\ lookup.replicationFactor = 3
  /\ \A p \in DOMAIN ring.ring : p < hash(lookup.key)
  /\ Len(lookup.result.replicas) = 1
  /\ lookup.result.primary = ring.ring[CHOOSE p \in DOMAIN ring.ring : \A q \in DOMAIN ring.ring : p <= q]

\* a key was looked up on the empty ring
C11_EmptyWitness == lookup # NoLookup /\ ring = NewHashRing /\ lookup.result = RingEmptyError

(* requests to brokers that do not answer *)
\* the Coordinator has started; any of the brokers may be down
InitHang ==
  /\ ring = StartRing
  /\ promotedNodes = [n \in {} |-> None]
  /\ failoverEvents = <<>>
  /\ nodeHealth = InitHealth(StartRing)
  /\ rounds = EmptyBag
  /\ handlers = EmptyBag
  /\ produceReqs = EmptyBag
  /\ consumeReqs = {}
  /\ up \in [Brokers -> BOOLEAN]
  /\ messageStore = [b \in Brokers |-> [k \in Keys |-> NoEntry]]
  /\ lastProduced = [k \in Keys |-> NoProduce]
  /\ outages = 0
  /\ lookup = NoLookup
  /\ hung = {}
  /\ fired = [b \in Brokers |-> FALSE]
  /\ stopped = FALSE

NextHang ==
  \/ \E k \in Keys, p \in Payloads : Produce(k, p)
  \/ \E r \in BagToSet(produceReqs) : Store(r)
  \/ \E r \in BagToSet(produceReqs) : StoreFail(r)
  \/ \E r \in BagToSet(produceReqs) : Replicate(r)
  \/ \E r \in BagToSet(produceReqs) : ReplicateFail(r)
  \/ \E r \in BagToSet(produceReqs) : ProduceDone(r)
  \/ \E k \in Keys : Consume(k)
  \/ \E c \in consumeReqs : FetchOk(c)
  \/ \E c \in consumeReqs : FetchFail(c)
  \/ \E c \in consumeReqs : ConsumeDone(c)
  \/ \E b \in Brokers : BrokerHang(b)

\* every call that is out gets its reply or its error in the end, when one is to come
SpecHang ==
  /\ InitHang /\ [][NextHang]_vars
  /\ WF_vars(ProduceStep) /\ WF_vars(ConsumeStep)

ProducePending == \E r \in BagToSet(produceReqs) : r.pc # "done"
ConsumePending == \E c \in consumeReqs : c.pc # "done"

\* C12: every /produce and every /consume the Coordinator has taken in is answered in
\* the end, also when a broker it contacts accepts the connection and never answers.
C12_EveryRequestAnswered ==
  /\ ProducePending ~> ~ProducePending
  /\ ConsumePending ~> ~ConsumePending

\* the /consume half: every GET /fetch has a timeout of 2000 ms
C12_ConsumeAnswered == ConsumePending ~> ~ConsumePending

(* the monitor's status machine *)
\* C13: whenever failureThreshold probes of a broker in a row have failed, with no
\* success in between, onFailure has been called for it since its last successful
\* probe, whatever its status was when the failures started.
C13_ThresholdFiresOnFailure ==
  \A i \in 1..Len(nodeHealth) :
    nodeHealth[i].failCount >= failureThreshold => fired[nodeHealth[i].name]

\* C14: a status goes from HEALTHY to FAILED only at a failed probe of that broker
\* that is at least the failureThreshold-th failure in a row since its last successful
\* probe; it becomes RECOVERED only at a successful probe of that broker while it is
\* FAILED or FAILED_OVER, and that probe sets failCount to 0. Rounds may overlap.
C14_StatusTransitions ==
  [][\A i \in 1..Len(nodeHealth) :
       /\ (nodeHealth[i].status = "HEALTHY" /\ nodeHealth'[i].status = "FAILED")
            => /\ ProbeFail(i)
               /\ nodeHealth[i].failCount + 1 >= failureThreshold
               /\ nodeHealth'[i].failCount >= failureThreshold
       /\ (nodeHealth[i].status # "RECOVERED" /\ nodeHealth'[i].status = "RECOVERED")
            => /\ ProbeOk(i)
               /\ nodeHealth[i].status \in {"FAILED", "FAILED_OVER"}
               /\ nodeHealth'[i].failCount = 0]_vars

\* with two rounds in flight, one broker has been declared FAILED and another has
\* been found RECOVERED
C14_Witness ==
  /\ BagCardinality(rounds) = 2
  /\ \E i \in 1..Len(nodeHealth) :
       nodeHealth[i].status = "FAILED" /\ nodeHealth[i].failCount >= failureThreshold
  /\ \E j \in 1..Len(nodeHealth) :
       nodeHealth[j].status = "RECOVERED" /\ nodeHealth[j].failCount = 0

\* C15: a status becomes FAILED_OVER only from FAILED: markFailedOver is never
\* applied to a broker that is HEALTHY or RECOVERED at that moment, also when the broker
\* answered probes again while the handler was waiting.
C15_FailedOverOnlyFromFailed ==
  [][\A i \in 1..Len(nodeHealth) :
       (nodeHealth[i].status # "FAILED_OVER" /\ nodeHealth'[i].status = "FAILED_OVER")
         => nodeHealth[i].status = "FAILED"]_vars

(* onFailure calls and probe rounds in flight *)
\* C16: at any time at most one onFailure call is in progress (from its start to the
\* insertion of the override or its early return), also when two brokers are declared
\* FAILED in the same probe round.
C16_OneHandlerAtATime == BagCardinality(handlers) <= 1

\* C17: two onFailure calls for the same failed node are never in progress at the same
\* time, also when the node recovers and is declared FAILED again while the first call
\* is waiting for a candidate probe or for the /promote reply.
C17_OneHandlerPerNode ==
  \A n \in Brokers :
    BagCardinality([h \in {x \in DOMAIN handlers : x.failedNode = n} |-> handlers[h]]) <= 1

\* C18: at most one probe round is in progress at any time: a tick that fires while the
\* round before it is still waiting on a probe starts no second round.
C18_OneRoundAtATime == BagCardinality(rounds) <= 1

(* monitor.stop() *)
\* the control plane of a monitor that may be stopped
NextStop ==
  \/ NextControl
  \/ Stop

SpecStop == Init /\ [][NextStop]_vars

\* a step in which _checkAll calls this.onFailure (line 145)
OnFailureCalled ==
  \E i \in 1..Len(nodeHealth) : ProbeFail(i) /\ DeclaresFailed(nodeHealth[i])

\* a step in which _checkAll calls this.onRecovery (line 131)
OnRecoveryCalled ==
  \E i \in 1..Len(nodeHealth) :
    ProbeOk(i) /\ nodeHealth[i].status \in {"FAILED", "FAILED_OVER"}

\* C19: once stop() has returned the monitor calls neither onFailure nor onRecovery
\* again, not even from a probe round that was in flight when stop() was called.
C19_NoEventsAfterStop ==
  [][stopped => ~(OnFailureCalled \/ OnRecoveryCalled)]_vars

(* the replica list of /produce *)
\* C20: for every key and every override map the Coordinator can get to, the replicas
\* that /produce reports, and the replicateTo list it passes to the primary, consist of
\* pairwise-distinct brokers, none of them the effective primary.
C20_ReplicasDistinct ==
  \A k \in RouteKeys :
    LET route == ProduceRoute(ring, promotedNodes, k)
    IN /\ \A i, j \in 1..Len(route.replicas) : i # j => route.replicas[i] # route.replicas[j]
       /\ \A i \in 1..Len(route.replicas) : route.replicas[i] # route.primary
       /\ \A i, j \in 1..Len(route.replicaUrls) :
            i # j => route.replicaUrls[i] # route.replicaUrls[j]
       /\ \A i \in 1..Len(route.replicaUrls) : route.replicaUrls[i] # route.primaryUrl

(* the choice of the promoted broker *)
\* the Coordinator started with the first n entries of BROKER_NODES, n = 1, 2, ...
InitDeploy ==
  /\ \E n \in 1..Len(BROKER_NODES) : ring = BuildRing(NewHashRing, SubSeq(BROKER_NODES, 1, n))
  /\ promotedNodes = [n \in {} |-> None]
  /\ failoverEvents = <<>>
  /\ nodeHealth = InitHealth(ring)
  /\ rounds = EmptyBag
  /\ handlers = EmptyBag
  /\ produceReqs = EmptyBag
  /\ consumeReqs = {}
  /\ up = [b \in Brokers |-> TRUE]
  /\ messageStore = [b \in Brokers |-> [k \in Keys |-> NoEntry]]
  /\ lastProduced = [k \in Keys |-> NoProduce]
  /\ outages = 0
  /\ stopped = FALSE
  /\ fired = [b \in Brokers |-> FALSE]
  /\ hung = {}
  /\ lookup = NoLookup

SpecDeploy == InitDeploy /\ [][NextControl]_vars

\* how many places after x, in cyclic registration order, b is
Distance(x, b) ==
  LET all == getAllNodeNames(ring)
      Reg(n) == CHOOSE i \in 1..Len(all) : all[i] = n
  IN (Reg(b) - Reg(x) + Len(all)) % Len(all)

\* C21: the broker onFailure promotes for failed node X is the first broker after X,
\* in cyclic registration order, whose /health probe succeeds, and never X; when no
\* candidate's probe succeeds (also with one broker only) the handler adds no
\* override, appends no failover event and leaves the status of X as it is.
C21_PromotesFirstHealthy ==
  [][LET registered == Range(getAllNodeNames(ring))
     IN /\ \A h \in BagToSet(handlers) :
             CandidateOk(h) =>
               \E g \in BagToSet(handlers') :
                 /\ g.failedNode = h.failedNode /\ g.pc = "promote"
                 /\ g.promotedNode \in registered \ {h.failedNode}
                 /\ Reachable(getNodeUrl(ring, g.promotedNode))
                 /\ Range(h.tried) = {b \in registered :
                        0 < Distance(h.failedNode, b)
                        /\ Distance(h.failedNode, b) < Distance(h.failedNode, g.promotedNode)}
        /\ (promotedNodes' # promotedNodes \/ failoverEvents' # failoverEvents) =>
             \E h \in BagToSet(handlers) :
               /\ h.pc = "promote"
               /\ promotedNodes' = MapPut(promotedNodes, h.failedNode, h.promotedNode)
               /\ failoverEvents' = Append(failoverEvents, [failedNode |-> h.failedNode,
                                                            promotedNode |-> h.promotedNode])
        /\ \A h \in BagToSet(handlers) :
             (CandidateFail(h) /\ BagCardinality(handlers') < BagCardinality(handlers)) =>
               /\ Range(h.tried) \cup {Candidate(h)} = registered \ {h.failedNode}
               /\ UNCHANGED <<promotedNodes, failoverEvents, nodeHealth>>
        /\ \A i \in 1..Len(nodeHealth) :
             (ProbeFail(i) /\ DeclaresFailed(nodeHealth[i]) /\ Cardinality(registered) = 1) =>
               /\ UNCHANGED <<promotedNodes, failoverEvents, handlers>>
               /\ nodeHealth'[i].status = "FAILED"]_vars

\* the first candidate after a did not answer and the second one was promoted
C21_Witness ==
  /\ Len(getAllNodeNames(ring)) = 3
  /\ \E j \in 1..Len(failoverEvents) :
       failoverEvents[j] = [failedNode |-> "a", promotedNode |-> "c"]
  /\ MapGet(promotedNodes, "a") = "c"

\* the only broker was declared FAILED and nothing was promoted
C21_SingleBrokerWitness ==
  /\ Len(getAllNodeNames(ring)) = 1
  /\ nodeHealth[1].status = "FAILED"
  /\ promotedNodes = [n \in {} |-> None] /\ failoverEvents = <<>> /\ handlers = EmptyBag

\* of two brokers a was declared FAILED, the probe of the one candidate failed and
\* the handler returned
C21_DegradedWitness ==
  /\ Len(getAllNodeNames(ring)) = 2
  /\ HealthOf("a").status = "FAILED" /\ fired["a"] /\ ~up["b"]
  /\ HealthOf("b").status = "HEALTHY"
  /\ handlers = EmptyBag /\ failoverEvents = <<>>

(* addNode and removeNode *)
\* ring.removeNode(name)
RemoveNode(nodeName) ==
  /\ ring' = removeNode(ring, nodeName)
  /\ lookup' = NoLookup
  /\ UNCHANGED <<stopped, fired, hung, promotedNodes, failoverEvents, nodeHealth, rounds,
                 handlers, produceReqs, consumeReqs, up, messageStore, lastProduced, outages>>

NextRingEdit ==
  \/ \E i \in 1..Len(BROKER_NODES) : AddNode(BROKER_NODES[i])
  \/ \E b \in Brokers : RemoveNode(b)

SpecRingEdit == InitRing /\ [][NextRingEdit]_vars

\* C22: after any sequence of addNode and removeNode calls, also with addNode for a
\* name that is registered already, sortedPositions is strictly increasing, holds
\* exactly the positions of the ring map, and every position maps to a broker that is
\* registered in nodes.
C22_RingWellFormed ==
  /\ \A i \in 1..(Len(ring.sortedPositions) - 1) :
       ring.sortedPositions[i] < ring.sortedPositions[i + 1]
  /\ Range(ring.sortedPositions) = DOMAIN ring.ring
  /\ \A p \in DOMAIN ring.ring : ring.ring[p] \in Range(getAllNodeNames(ring))

(* chains in the override map *)
\* C23: no broker that an override entry promotes is itself a key of the override
\* map, so the one-step resolution of a raw primary never gives a broker that has
\* itself been failed over.
C23_NoOverrideChains ==
  \A x \in DOMAIN promotedNodes : promotedNodes[x] \notin DOMAIN promotedNodes

(* concurrent writers *)
\* POST /produce while fewer than MaxWriters requests are under way
ProduceRacing(key, payload) ==
  /\ BagCardinality(produceReqs) < MaxWriters
  /\ Arrive(key, payload)

\* every broker stays reachable and nothing fails over: requests and their replies only
NextWrites ==
  \/ \E k \in Keys, p \in Payloads : ProduceRacing(k, p)
  \/ \E r \in BagToSet(produceReqs) : Store(r)
  \/ \E r \in BagToSet(produceReqs) : Replicate(r)
  \/ \E r \in BagToSet(produceReqs) : ProduceDone(r)

SpecWrites == Init /\ [][NextWrites]_vars

\* no /produce for key is under way, one has been answered, and every answer still
\* held reports all its replications as successful
WritesSettled(key) ==
  /\ InFlight(key) = {}
  /\ lastProduced[key].payload # None
  /\ \A r \in BagToSet(produceReqs) :
       r.key = key =>
         /\ r.status = 201
         /\ \A j \in 1..Len(r.replicationResults) : r.replicationResults[j].status = "success"

\* C24: with every broker reachable and no failover, once all concurrent /produce
\* requests for a key are answered with every replication reported successful, the
\* primary and every replica hold the same payload for the key, the one written last
\* at the primary, whatever the interleaving of the /store handlers and the delivery
\* order of their /replicate calls.
C24_ReplicasConverge ==
  \A k \in Keys :
    WritesSettled(k) =>
      LET route == ProduceRoute(ring, promotedNodes, k)
      IN \A i \in 1..Len(route.replicas) :
           /\ messageStore[route.replicas[i]][k] # NoEntry
           /\ messageStore[route.replicas[i]][k].payload = messageStore[route.primary][k].payload

====
